---- MODULE Spec2Model ----
(***************************************************************************)
(* A model of src/authorizer.py: the API Gateway custom authorizer         *)
(* (lambda_handler, validate_token) and the policy builder (AuthPolicy).   *)
(*                                                                         *)
(* Strings whose characters the code inspects (resource paths) are         *)
(* sequences of one-character strings; a resource ARN is the sequence of   *)
(* the fragments that str.format joins.                                    *)
(***************************************************************************)
EXTENDS Integers, Sequences, FiniteSets, TLC

VARIABLES
    pc,          \* position of lambda_handler / validate_token
    event,       \* the request: token, User-Agent, requestContext
    policy,      \* lambda_handler's local AuthPolicy
    headers,     \* validate_token: jwt.get_unverified_headers(token)
    keys,        \* validate_token: the fetched key set
    target_key,  \* validate_token: the key selected by the kid scan
    claims,      \* validate_token: jwt.get_unverified_claims(token), <<>> until read
    now,         \* the clock: what time.time() returns during this request
    error,       \* the exception raised in lambda_handler's try, "" when none
    result,      \* what lambda_handler gave its caller
    builder,     \* an AuthPolicy driven directly through its public methods
    ret,         \* outcome of the last call on builder or on an instance of insts
    call,        \* that call: its arguments and the instance as it was before
    shared,      \* the lists held by the class itself: AuthPolicy.allowMethods, .denyMethods
    insts,       \* two AuthPolicy objects side by side
    hasBuilt     \* history: builder.build() has returned a document since builder was constructed

hvars == <<pc, event, policy, headers, keys, target_key, claims, now, error, result>>
bvars == <<builder, ret, call, shared, insts, hasBuilt>>
tvars == <<shared, insts>>
vars == <<pc, event, policy, headers, keys, target_key, claims, now, error, result,
          builder, ret, call, shared, insts, hasBuilt>>

(***************************************************************************)
(* Bounds of the model.                                                    *)
(***************************************************************************)
MaxTime == 3     \* the clock and the exp claim range over 0..MaxTime
MaxKeys == 2     \* a fetched key set holds at most MaxKeys keys
MaxInstGrants == 2   \* SpecTwo records at most MaxInstGrants grants on each of its instances
MaxWideGrants == 1   \* SpecGrant records at most MaxWideGrants grants on builder
MaxGrants == 3   \* SpecPolicy records at most MaxGrants grants on builder

(***************************************************************************)
(* Exceptions.                                                             *)
(***************************************************************************)
NoError == ""
\* the messages validate_token gives InvalidTokenError
MsgUnknownKey == "Invalid public key in headers."
MsgBadSignature == "Invalid token signature."
MsgExpired == "Token is expired."
MsgBadAudience == "Invalid aud(Cognito Client ID)."
MsgBadUserAgent == "Invalid UserAgent."
InvalidTokenMessages ==
    {MsgUnknownKey, MsgBadSignature, MsgExpired, MsgBadAudience, MsgBadUserAgent}
\* every other exception is named by its class
JWTError == "JWTError"
KeySetUnavailable == "RequestException"
KeyError == "KeyError"
NameError == "NameError"

(***************************************************************************)
(* class HttpVerb and the attribute lookup hasattr(HttpVerb, verb).        *)
(***************************************************************************)
HttpVerbValues == {"GET", "POST", "PUT", "PATCH", "HEAD", "DELETE", "OPTIONS", "*"}
HttpVerbALL == "*"
\* the names hasattr finds on the class: its eight members and what every
\* class inherits from object
HttpVerbAttributes ==
    {"GET", "POST", "PUT", "PATCH", "HEAD", "DELETE", "OPTIONS", "ALL",
     "__doc__", "__init__", "__class__", "__dict__", "__module__", "__name__", "mro"}
HasAttrHttpVerb(verb) == verb \in HttpVerbAttributes

(***************************************************************************)
(* AuthPolicy.pathRegex = '^[/.a-zA-Z0-9-\*]+$' under re.match: one or     *)
(* more characters of the class, up to the end of the string or up to a    *)
(* final line feed.                                                        *)
(***************************************************************************)
Letters == {"a", "b", "c", "u", "s", "e", "r", "A", "Z"}
Digits == {"0", "1", "2", "3", "9"}
PathClass == Letters \cup Digits \cup {"/", ".", "-", "*"}
LineFeed == "\n"
AllInClass(s) == \A i \in 1..Len(s) : s[i] \in PathClass
PathRegexMatch(resource) ==
    \/ Len(resource) >= 1 /\ AllInClass(resource)
    \/ /\ Len(resource) >= 2
       /\ resource[Len(resource)] = LineFeed
       /\ AllInClass(SubSeq(resource, 1, Len(resource) - 1))

(***************************************************************************)
(* str.lower() and effect[:1].upper() + effect[1:].lower() on the effect   *)
(* names that reach them.                                                  *)
(***************************************************************************)
Lower(effect) ==
    CASE effect \in {"Allow", "allow", "ALLOW"} -> "allow"
      [] effect \in {"Deny", "deny", "DENY"} -> "deny"
      [] OTHER -> effect
Capitalize(effect) ==
    CASE effect \in {"Allow", "allow", "ALLOW"} -> "Allow"
      [] effect \in {"Deny", "deny", "DENY"} -> "Deny"
      [] OTHER -> effect

(***************************************************************************)
(* Conditions of a grant: None, or a collection (empty or not).            *)
(***************************************************************************)
CondNone == [isNone |-> TRUE, items |-> <<>>]
CondEmpty == [isNone |-> FALSE, items |-> <<>>]
CondOf(items) == [isNone |-> FALSE, items |-> items]

(***************************************************************************)
(* class AuthPolicy                                                        *)
(***************************************************************************)
PolicyVersion == "2012-10-17"
ClassRestApiId == "*"
ClassRegion == "*"
ClassStage == "*"

\* AuthPolicy(principal, awsAccountId): the instance's own, empty lists;
\* restApiId, region and stage read through to the class attributes.
AuthPolicyInit(principal, awsAccountId) ==
    [awsAccountId |-> awsAccountId,
     principalId  |-> principal,
     allowMethods |-> <<>>,
     denyMethods  |-> <<>>,
     restApiId    |-> ClassRestApiId,
     region       |-> ClassRegion,
     stage        |-> ClassStage]

\* mutant: every leading slash is stripped, as resource.lstrip('/') would
StripEveryLeadingSlash(resource) ==
    LET rest == {i \in 1..Len(resource) : resource[i] # "/"}
    IN  IF rest = {} THEN <<>>
        ELSE SubSeq(resource, CHOOSE i \in rest : \A j \in rest : i <= j, Len(resource))

\* resource[:1] == '/' and resource[1:]
StripLeadingSlash(resource) ==
    IF Len(resource) >= 1 /\ resource[1] = "/"
    THEN SubSeq(resource, 2, Len(resource))
    ELSE resource

\* mutant: restApiId and stage change places in the format arguments
ResourceArnStageFirst(self, verb, resource) ==
    <<"arn:aws:execute-api:", self.region, ":", self.awsAccountId, ":",
      self.stage, "/", self.restApiId, "/", verb, "/">> \o resource

\* 'arn:aws:execute-api:{}:{}:{}/{}/{}/{}'.format(...)
ResourceArn(self, verb, resource) ==
    <<"arn:aws:execute-api:", self.region, ":", self.awsAccountId, ":",
      self.restApiId, "/", self.stage, "/", verb, "/">> \o resource

\* _addMethod: [raised, self], raised = NoError when the call returned
AddMethod(self, effect, verb, resource, conditions) ==
    IF verb # "*" /\ ~HasAttrHttpVerb(verb)
    THEN [raised |-> NameError, self |-> self]
    ELSE IF ~PathRegexMatch(resource)
    THEN [raised |-> NameError, self |-> self]
    ELSE
      LET method == [resourceArn |-> ResourceArn(self, verb, StripLeadingSlash(resource)),
                     conditions  |-> conditions]
      IN  IF Lower(effect) = "allow"
          THEN [raised |-> NoError,
                self   |-> [self EXCEPT !.allowMethods = Append(@, method)]]
          ELSE IF Lower(effect) = "deny"
          THEN [raised |-> NoError,
                self   |-> [self EXCEPT !.denyMethods = Append(@, method)]]
          ELSE [raised |-> NoError, self |-> self]

\* _getEmptyStatement
GetEmptyStatement(effect) ==
    [Action |-> "execute-api:Invoke", Effect |-> Capitalize(effect), Resource |-> <<>>]

\* mutant: only None counts as no condition
IsUnconditionedNoneOnly(conditions) == conditions.isNone

\* curMethod['conditions'] is None or len(curMethod['conditions']) == 0
IsUnconditioned(conditions) == conditions.isNone \/ Len(conditions.items) = 0

\* mutant: the Condition entry is not set
ConditionalStatementBare(effect, curMethod) ==
    [Action    |-> "execute-api:Invoke",
     Effect    |-> Capitalize(effect),
     Resource  |-> <<curMethod.resourceArn>>]

\* the statement of one conditioned method
ConditionalStatement(effect, curMethod) ==
    [Action    |-> "execute-api:Invoke",
     Effect    |-> Capitalize(effect),
     Resource  |-> <<curMethod.resourceArn>>,
     Condition |-> curMethod.conditions.items]

\* the for loop of _getStatementForEffect from index i on: the shared
\* statement and the list of statements after the last method
RECURSIVE MethodLoop(_, _, _, _, _)
MethodLoop(effect, methods, i, statement, statements) ==
    IF i > Len(methods)
    THEN [statement |-> statement, statements |-> statements]
    ELSE IF IsUnconditioned(methods[i].conditions)
    THEN MethodLoop(effect, methods, i + 1,
                    [statement EXCEPT !.Resource = Append(@, methods[i].resourceArn)],
                    statements)
    ELSE MethodLoop(effect, methods, i + 1, statement,
                    Append(statements, ConditionalStatement(effect, methods[i])))

\* mutant: the shared statement is appended even when it has no resource
GetStatementForEffectKeepsEmpty(effect, methods) ==
    IF Len(methods) > 0
    THEN LET done == MethodLoop(effect, methods, 1, GetEmptyStatement(effect), <<>>)
         IN  Append(done.statements, done.statement)
    ELSE <<>>

\* mutant: the shared statement is appended before the loop's statements
GetStatementForEffectSharedFirst(effect, methods) ==
    IF Len(methods) > 0
    THEN LET done == MethodLoop(effect, methods, 1, GetEmptyStatement(effect), <<>>)
         IN  IF Len(done.statement.Resource) > 0
             THEN <<done.statement>> \o done.statements
             ELSE done.statements
    ELSE <<>>

\* _getStatementForEffect
GetStatementForEffect(effect, methods) ==
    IF Len(methods) > 0
    THEN LET done == MethodLoop(effect, methods, 1, GetEmptyStatement(effect), <<>>)
         IN  IF Len(done.statement.Resource) > 0
             THEN Append(done.statements, done.statement)
             ELSE done.statements
    ELSE <<>>

\* mutant: build hands its lists over and leaves the instance empty
BuildAndClear(self) ==
    IF Len(self.allowMethods) = 0 /\ Len(self.denyMethods) = 0
    THEN [raised |-> NameError, doc |-> <<>>, self |-> self]
    ELSE [raised |-> NoError,
          self |-> [self EXCEPT !.allowMethods = <<>>, !.denyMethods = <<>>],
          doc |-> << [principalId |-> self.principalId,
                      policyDocument |->
                        [Version   |-> PolicyVersion,
                         Statement |-> GetStatementForEffect("Allow", self.allowMethods)
                                       \o GetStatementForEffect("Deny", self.denyMethods)]] >>]

\* mutant: build refuses as soon as one of the two lists is empty
BuildNeedsBothLists(self) ==
    IF Len(self.allowMethods) = 0 \/ Len(self.denyMethods) = 0
    THEN [raised |-> NameError, doc |-> <<>>, self |-> self]
    ELSE [raised |-> NoError,
          self |-> self,
          doc |-> << [principalId |-> self.principalId,
                      policyDocument |->
                        [Version   |-> PolicyVersion,
                         Statement |-> GetStatementForEffect("Allow", self.allowMethods)
                                       \o GetStatementForEffect("Deny", self.denyMethods)]] >>]

\* build: [raised, doc, self], doc = <<the policy>> when the call returned
Build(self) ==
    IF Len(self.allowMethods) = 0 /\ Len(self.denyMethods) = 0
    THEN [raised |-> NameError, doc |-> <<>>, self |-> self]
    ELSE [raised |-> NoError,
          self |-> self,
          doc |-> << [principalId |-> self.principalId,
                      policyDocument |->
                        [Version   |-> PolicyVersion,
                         Statement |-> GetStatementForEffect("Allow", self.allowMethods)
                                       \o GetStatementForEffect("Deny", self.denyMethods)]] >>]

AllowAllMethods(self) == AddMethod(self, "Allow", HttpVerbALL, <<"*">>, CondEmpty)
\* mutant: denyAllMethods records an Allow grant, as its docstring says
DenyAllMethodsAllows(self) == AddMethod(self, "Allow", HttpVerbALL, <<"*">>, CondEmpty)
DenyAllMethods(self) == AddMethod(self, "Deny", HttpVerbALL, <<"*">>, CondEmpty)
AllowMethod(self, verb, resource) == AddMethod(self, "Allow", verb, resource, CondEmpty)
DenyMethod(self, verb, resource) == AddMethod(self, "Deny", verb, resource, CondEmpty)
AllowMethodWithConditions(self, verb, resource, conditions) ==
    AddMethod(self, "Allow", verb, resource, conditions)
DenyMethodWithConditions(self, verb, resource, conditions) ==
    AddMethod(self, "Deny", verb, resource, conditions)

(***************************************************************************)
(* The inputs of a request.                                                *)
(***************************************************************************)
\* os.environ and event['requestContext']
ClientId == "client-1"
Contexts ==
    {[region |-> "us-east-1", accountId |-> "111122223333", apiId |-> "abcd123",
      stage |-> "prod"],
     [region |-> "eu-west-1", accountId |-> "444455556666", apiId |-> "wxyz789",
      stage |-> "dev"]}
UserAgents == {"cognito-authorizer", "curl"}
Audiences == {ClientId, "client-2"}
Kids == {"k1", "k2"}
Materials == {"m1", "m2"}

\* A token: malformed (jose cannot load it), or a JWT with a header (kid or
\* none), a payload (exp or none, aud) and a signature made with the private
\* half of key material `signer` ("forged": of no published key).
MalformedToken ==
    [shape |-> "malformed", has_kid |-> FALSE, kid |-> "", signer |-> "forged",
     has_exp |-> FALSE, exp |-> 0, aud |-> ""]
Tokens ==
    {MalformedToken}
    \cup [shape : {"jwt"}, has_kid : {TRUE}, kid : {"k1"}, signer : {"m1", "forged"},
          has_exp : {TRUE}, exp : 0..MaxTime, aud : Audiences]
    \cup [shape : {"jwt"}, has_kid : {FALSE}, kid : {""}, signer : {"m1", "forged"},
          has_exp : {TRUE}, exp : 0..MaxTime, aud : Audiences]
    \cup [shape : {"jwt"}, has_kid : {TRUE}, kid : {"k1"}, signer : {"m1", "forged"},
          has_exp : {FALSE}, exp : {0}, aud : Audiences]

\* The key sets the endpoint can answer with.
SigningKeys == [kid : Kids, mat : Materials]
RECURSIVE SeqsUpTo(_, _)
SeqsUpTo(S, n) ==
    IF n = 0 THEN {<<>>}
    ELSE LET shorter == SeqsUpTo(S, n - 1)
         IN  shorter \cup {Append(q, x) : q \in {r \in shorter : Len(r) = n - 1}, x \in S}
KeySets == SeqsUpTo(SigningKeys, MaxKeys)

NoKey == [kid |-> "", mat |-> ""]
NoHeaders == [has_kid |-> FALSE, kid |-> ""]
NoEvent == [token |-> MalformedToken, user_agent |-> "",
            context |-> [region |-> "", accountId |-> "", apiId |-> "", stage |-> ""]]
NoResult == [kind |-> "none", response |-> <<>>, exc |-> NoError]

(***************************************************************************)
(* validate_token, step by step.                                           *)
(***************************************************************************)
\* the scan `for key in keys: if key['kid'] == headers['kid']: target_key = key`
\* over keys[i..]: the last match, or the key found so far
\* mutant: the scan keeps the first key with the kid, as a loop with break would
RECURSIVE ScanKeysFirstMatch(_, _, _, _)
ScanKeysFirstMatch(ks, kid, i, found) ==
    IF i > Len(ks) THEN found
    ELSE ScanKeysFirstMatch(ks, kid, i + 1,
                            IF ks[i].kid = kid /\ found = NoKey THEN ks[i] ELSE found)

RECURSIVE ScanKeys(_, _, _, _)
ScanKeys(ks, kid, i, found) ==
    IF i > Len(ks) THEN found
    ELSE ScanKeys(ks, kid, i + 1, IF ks[i].kid = kid THEN ks[i] ELSE found)

\* mutant: the result of verify is not looked at
VerifyIgnored(key, token) == TRUE

\* public_key.verify(message, decode_signature) for the key built from target_key
Verify(key, token) == key.mat = token.signer

\* mutant: the comparison includes the boundary
IsExpiredAtExp(t, exp) == t >= exp

\* time.time() > claims['exp']
IsExpired(t, exp) == t > exp

\* raise InvalidTokenError(msg) inside lambda_handler's try
RaiseInvalid(msg) ==
    /\ error' = msg
    /\ pc' = "except_invalid"

\* mutant: every exception is handled like InvalidTokenError
RaiseOtherAsInvalid(exc) ==
    /\ error' = exc
    /\ pc' = "except_invalid"

\* any other exception inside lambda_handler's try
RaiseOther(exc) ==
    /\ error' = exc
    /\ pc' = "except_other"

\* lambda_handler lines 13-29: a request arrives; the policy is constructed
Invoke ==
    /\ pc = "idle"
    /\ \E token \in Tokens, ua \in UserAgents, ctx \in Contexts, t \in 0..MaxTime :
          /\ event' = [token |-> token, user_agent |-> ua, context |-> ctx]
          /\ now' = t
          /\ policy' = [AuthPolicyInit("", ctx.accountId) EXCEPT
                            !.region = ctx.region,
                            !.restApiId = ctx.apiId,
                            !.stage = ctx.stage]
    /\ headers' = NoHeaders
    /\ keys' = <<>>
    /\ target_key' = NoKey
    /\ claims' = <<>>
    /\ error' = NoError
    /\ result' = NoResult
    /\ pc' = "headers"
    /\ UNCHANGED bvars

\* line 50: jwt.get_unverified_headers(token)
GetUnverifiedHeaders ==
    /\ pc = "headers"
    /\ IF event.token.shape = "malformed"
       THEN /\ RaiseOther(JWTError)
            /\ UNCHANGED headers
       ELSE /\ headers' = [has_kid |-> event.token.has_kid, kid |-> event.token.kid]
            /\ pc' = "fetch"
            /\ UNCHANGED error
    /\ UNCHANGED <<event, policy, keys, target_key, claims, now, result, bvars>>

\* lines 53-54: the key set is fetched and parsed
FetchKeys ==
    /\ pc = "fetch"
    /\ \/ /\ RaiseOther(KeySetUnavailable)
          /\ UNCHANGED keys
       \/ /\ \E ks \in KeySets : keys' = ks
          /\ pc' = "find_key"
          /\ UNCHANGED error
    /\ UNCHANGED <<event, policy, headers, target_key, claims, now, result, bvars>>

\* lines 55-60: the kid scan
FindKey ==
    /\ pc = "find_key"
    /\ IF Len(keys) > 0 /\ ~headers.has_kid
       THEN /\ RaiseOther(KeyError)
            /\ UNCHANGED target_key
       ELSE LET found == ScanKeys(keys, headers.kid, 1, NoKey)
            IN  /\ target_key' = found
                /\ IF found = NoKey
                   THEN RaiseInvalid(MsgUnknownKey)
                   ELSE pc' = "verify" /\ UNCHANGED error
    /\ UNCHANGED <<event, policy, headers, keys, claims, now, result, bvars>>

\* lines 63-73: the signature check
VerifySignature ==
    /\ pc = "verify"
    /\ IF ~Verify(target_key, event.token)
       THEN RaiseInvalid(MsgBadSignature)
       ELSE pc' = "claims" /\ UNCHANGED error
    /\ UNCHANGED <<event, policy, headers, keys, target_key, claims, now, result,
                   bvars>>

\* line 76: jwt.get_unverified_claims(token)
GetUnverifiedClaims ==
    /\ pc = "claims"
    /\ claims' = <<[has_exp |-> event.token.has_exp, exp |-> event.token.exp,
                    aud |-> event.token.aud]>>
    /\ pc' = "check_exp"
    /\ UNCHANGED <<event, policy, headers, keys, target_key, now, error, result,
                   bvars>>

\* lines 77-78: the expiry check against the clock
CheckExpiry ==
    /\ pc = "check_exp"
    /\ IF ~claims[1].has_exp
       THEN RaiseOther(KeyError)
       ELSE IF IsExpired(now, claims[1].exp)
       THEN RaiseInvalid(MsgExpired)
       ELSE pc' = "check_aud" /\ UNCHANGED error
    /\ UNCHANGED <<event, policy, headers, keys, target_key, claims, now, result,
                   bvars>>

\* mutant: the User-Agent is checked before the audience
CheckAudienceAfterUserAgent ==
    /\ pc = "check_aud"
    /\ IF event.user_agent # "cognito-authorizer"
       THEN RaiseInvalid(MsgBadUserAgent)
       ELSE IF claims[1].aud # ClientId
       THEN RaiseInvalid(MsgBadAudience)
       ELSE pc' = "check_ua" /\ UNCHANGED error
    /\ UNCHANGED <<event, policy, headers, keys, target_key, claims, now, result,
                   bvars>>

\* lines 81-82: the audience check
CheckAudience ==
    /\ pc = "check_aud"
    /\ IF claims[1].aud # ClientId
       THEN RaiseInvalid(MsgBadAudience)
       ELSE pc' = "check_ua" /\ UNCHANGED error
    /\ UNCHANGED <<event, policy, headers, keys, target_key, claims, now, result,
                   bvars>>

\* lines 85-86: the User-Agent check; validate_token returns
CheckUserAgent ==
    /\ pc = "check_ua"
    /\ IF event.user_agent # "cognito-authorizer"
       THEN RaiseInvalid(MsgBadUserAgent)
       ELSE pc' = "allow" /\ UNCHANGED error
    /\ UNCHANGED <<event, policy, headers, keys, target_key, claims, now, result,
                   bvars>>

(***************************************************************************)
(* lambda_handler after validate_token.                                    *)
(***************************************************************************)
\* lines 33-36: allowAllMethods, build, return
ReturnAllow ==
    /\ pc = "allow"
    /\ LET added == AllowAllMethods(policy)
           built == Build(added.self)
       IN  /\ policy' = built.self
           /\ IF added.raised # NoError
              THEN RaiseOther(added.raised) /\ UNCHANGED result
              ELSE IF built.raised # NoError
              THEN RaiseOther(built.raised) /\ UNCHANGED result
              ELSE /\ result' = [kind |-> "return", response |-> built.doc, exc |-> NoError]
                   /\ pc' = "done"
                   /\ UNCHANGED error
    /\ UNCHANGED <<event, headers, keys, target_key, claims, now, bvars>>

\* mutant: the reason is also made the principal of the denial
ReturnDenyReasonAsPrincipal ==
    /\ pc = "except_invalid"
    /\ LET added == DenyAllMethods(policy)
           built == Build(added.self)
       IN  /\ policy' = built.self
           /\ IF added.raised # NoError
              THEN result' = [kind |-> "raise", response |-> <<>>, exc |-> added.raised]
              ELSE IF built.raised # NoError
              THEN result' = [kind |-> "raise", response |-> <<>>, exc |-> built.raised]
              ELSE result' =
                     [kind |-> "return",
                      response |-> << [principalId |-> error,
                                       policyDocument |-> built.doc[1].policyDocument,
                                       context |-> [message |-> error]] >>,
                      exc |-> NoError]
    /\ pc' = "done"
    /\ UNCHANGED <<event, headers, keys, target_key, claims, now, error, bvars>>

\* lines 37-42: except InvalidTokenError: denyAllMethods, build, context, return
ReturnDeny ==
    /\ pc = "except_invalid"
    /\ LET added == DenyAllMethods(policy)
           built == Build(added.self)
       IN  /\ policy' = built.self
           /\ IF added.raised # NoError
              THEN result' = [kind |-> "raise", response |-> <<>>, exc |-> added.raised]
              ELSE IF built.raised # NoError
              THEN result' = [kind |-> "raise", response |-> <<>>, exc |-> built.raised]
              ELSE result' =
                     [kind |-> "return",
                      response |-> << [principalId |-> built.doc[1].principalId,
                                       policyDocument |-> built.doc[1].policyDocument,
                                       context |-> [message |-> error]] >>,
                      exc |-> NoError]
    /\ pc' = "done"
    /\ UNCHANGED <<event, headers, keys, target_key, claims, now, error, bvars>>

\* lines 43-44: except Exception as e: raise e
Reraise ==
    /\ pc = "except_other"
    /\ result' = [kind |-> "raise", response |-> <<>>, exc |-> error]
    /\ pc' = "done"
    /\ UNCHANGED <<event, policy, headers, keys, target_key, claims, now, error,
                   bvars>>

\* the caller has taken the return value or the exception: the frame of
\* lambda_handler is gone and the next request starts from nothing
Finish ==
    /\ pc = "done"
    /\ pc' = "idle"
    /\ event' = NoEvent
    /\ policy' = AuthPolicyInit("", "")
    /\ headers' = NoHeaders
    /\ keys' = <<>>
    /\ target_key' = NoKey
    /\ claims' = <<>>
    /\ now' = 0
    /\ error' = NoError
    /\ result' = NoResult
    /\ UNCHANGED bvars

(***************************************************************************)
(* The specification of the authorizer.                                    *)
(***************************************************************************)
\* the arguments the directly driven AuthPolicy is constructed with
Principal == "user"
Account == "111122223333"
NoRet == [op |-> "__init__", raised |-> NoError, doc |-> <<>>]
NoCall == [inst |-> 0, verb |-> "", resource |-> <<>>,
           self |-> AuthPolicyInit(Principal, Account)]
\* the instances of insts, none of them constructed yet
Insts == {1, 2}
NoInst == [alive |-> FALSE, own |-> FALSE, fields |-> AuthPolicyInit("", ""), log |-> <<>>]

Init ==
    /\ pc = "idle"
    /\ event = NoEvent
    /\ policy = AuthPolicyInit("", "")
    /\ headers = NoHeaders
    /\ keys = <<>>
    /\ target_key = NoKey
    /\ claims = <<>>
    /\ now = 0
    /\ error = NoError
    /\ result = NoResult
    /\ builder = AuthPolicyInit(Principal, Account)
    /\ ret = NoRet
    /\ call = NoCall
    /\ shared = [allowMethods |-> <<>>, denyMethods |-> <<>>]
    /\ insts = [i \in Insts |-> NoInst]
    /\ hasBuilt = FALSE

Next ==
    \/ Invoke
    \/ GetUnverifiedHeaders
    \/ FetchKeys
    \/ FindKey
    \/ VerifySignature
    \/ GetUnverifiedClaims
    \/ CheckExpiry
    \/ CheckAudience
    \/ CheckUserAgent
    \/ ReturnAllow
    \/ ReturnDeny
    \/ Reraise
    \/ Finish

Spec == Init /\ [][Next]_vars

(***************************************************************************)
(* AuthPolicy driven through its public methods.  Every call leaves its    *)
(* outcome in ret: the method, the exception raised (NoError when it       *)
(* returned) and, for build, the document returned.                        *)
(***************************************************************************)
\* the inputs of SpecPolicy: few verbs and paths, grant lists up to MaxGrants
Verbs == {"GET", "get"}
Paths == {<<"/", "a">>, <<"b">>, <<"a", "?">>}
Conditions == {CondNone, CondEmpty, CondOf(<<"c1">>)}

Grants(self) == Len(self.allowMethods) + Len(self.denyMethods)

\* the call returned or raised; a raising call leaves the instance as AddMethod says
\* mutant: a call after a successful build is refused
CalledOnceBuilt(op, verb, resource, added) ==
    /\ builder' = IF hasBuilt THEN builder ELSE added.self
    /\ ret' = [op |-> op, raised |-> IF hasBuilt THEN "AlreadyBuilt" ELSE added.raised,
               doc |-> <<>>]
    /\ call' = [inst |-> 0, verb |-> verb, resource |-> resource, self |-> builder]
    /\ UNCHANGED hasBuilt
    /\ UNCHANGED hvars
    /\ UNCHANGED tvars

Called(op, verb, resource, added) ==
    /\ builder' = added.self
    /\ ret' = [op |-> op, raised |-> added.raised, doc |-> <<>>]
    /\ call' = [inst |-> 0, verb |-> verb, resource |-> resource, self |-> builder]
    /\ UNCHANGED hasBuilt
    /\ UNCHANGED hvars
    /\ UNCHANGED tvars

CallAllowMethod ==
    /\ Grants(builder) < MaxGrants
    /\ \E verb \in Verbs, resource \in Paths :
          Called("allowMethod", verb, resource, AllowMethod(builder, verb, resource))

CallDenyMethod ==
    /\ Grants(builder) < MaxGrants
    /\ \E verb \in Verbs, resource \in Paths :
          Called("denyMethod", verb, resource, DenyMethod(builder, verb, resource))

CallAllowMethodWithConditions ==
    /\ Grants(builder) < MaxGrants
    /\ \E verb \in Verbs, resource \in Paths, conditions \in Conditions :
          Called("allowMethodWithConditions", verb, resource,
                 AllowMethodWithConditions(builder, verb, resource, conditions))

CallDenyMethodWithConditions ==
    /\ Grants(builder) < MaxGrants
    /\ \E verb \in Verbs, resource \in Paths, conditions \in Conditions :
          Called("denyMethodWithConditions", verb, resource,
                 DenyMethodWithConditions(builder, verb, resource, conditions))

CallAllowAllMethods ==
    /\ Grants(builder) < MaxGrants
    /\ Called("allowAllMethods", HttpVerbALL, <<"*">>, AllowAllMethods(builder))

CallDenyAllMethods ==
    /\ Grants(builder) < MaxGrants
    /\ Called("denyAllMethods", HttpVerbALL, <<"*">>, DenyAllMethods(builder))

CallBuild ==
    /\ LET built == Build(builder)
       IN  /\ builder' = built.self
           /\ ret' = [op |-> "build", raised |-> built.raised, doc |-> built.doc]
           /\ hasBuilt' = (hasBuilt \/ built.raised = NoError)
    /\ call' = [inst |-> 0, verb |-> "", resource |-> <<>>, self |-> builder]
    /\ UNCHANGED hvars
    /\ UNCHANGED tvars

\* a new AuthPolicy(principal, awsAccountId) replaces the instance
Construct ==
    /\ builder' = AuthPolicyInit(Principal, Account)
    /\ ret' = NoRet
    /\ call' = NoCall
    /\ hasBuilt' = FALSE
    /\ UNCHANGED hvars
    /\ UNCHANGED tvars

NextPolicy ==
    \/ CallAllowMethod
    \/ CallDenyMethod
    \/ CallAllowMethodWithConditions
    \/ CallDenyMethodWithConditions
    \/ CallAllowAllMethods
    \/ CallDenyAllMethods
    \/ CallBuild
    \/ Construct

SpecPolicy == Init /\ [][NextPolicy]_vars

(***************************************************************************)
(* Properties of the authorizer (Spec).                                    *)
(***************************************************************************)
Statements(response) == response.policyDocument.Statement
HasEffect(response, effect) ==
    \E i \in 1..Len(Statements(response)) : Statements(response)[i].Effect = effect
Returned == result.kind = "return"
ReturnedAllow == Returned /\ HasEffect(result.response[1], "Allow")
ReturnedDeny == Returned /\ HasEffect(result.response[1], "Deny")

\* the selected key is a fetched key that carries the kid of the token's header
KidMatched ==
    /\ event.token.has_kid
    /\ \E i \in 1..Len(keys) : keys[i] = target_key /\ keys[i].kid = event.token.kid

\* C1: lambda_handler returns an Allow statement only for a request whose
\* header kid matched a fetched key, whose signature verified, whose token
\* is not expired (the clock is not past exp), whose aud is the client id
\* and whose User-Agent is the expected literal; and whenever validate_token
\* failed with InvalidTokenError the returned document has a Deny statement
\* and no Allow statement.
C1_AllowOnlyIfValid ==
    /\ ReturnedAllow =>
          /\ event.token.shape = "jwt"
          /\ KidMatched
          /\ target_key.mat = event.token.signer
          /\ event.token.has_exp /\ now <= event.token.exp
          /\ event.token.aud = ClientId
          /\ event.user_agent = "cognito-authorizer"
    /\ (pc = "done" /\ error \in InvalidTokenMessages) =>
          /\ ReturnedDeny
          /\ ~HasEffect(result.response[1], "Allow")

C1_Witness == pc = "done" /\ ReturnedAllow /\ error = NoError

\* the signature check ran on the selected key and failed
SignatureFailed ==
    /\ pc \notin {"idle", "headers", "fetch", "find_key", "verify"}
    /\ target_key # NoKey
    /\ target_key.mat # event.token.signer

\* C2: a token whose signature fails verification is rejected with the
\* signature reason whatever its exp, aud and User-Agent are, and the claims
\* are read only once the signature check has passed.
C2_SignatureBeforeClaims ==
    /\ claims # <<>> => (target_key # NoKey /\ target_key.mat = event.token.signer)
    /\ SignatureFailed =>
          /\ claims = <<>>
          /\ error = MsgBadSignature
          /\ pc \in {"except_invalid", "done"}
          /\ pc = "done" =>
                /\ ReturnedDeny
                /\ result.response[1].context.message = MsgBadSignature

\* a forged token that every later check would accept
C2_Witness ==
    /\ pc = "done"
    /\ SignatureFailed
    /\ event.token.has_exp /\ event.token.exp = MaxTime /\ now < MaxTime
    /\ event.token.aud = ClientId
    /\ event.user_agent = "cognito-authorizer"
    /\ error = MsgBadSignature

\* the five checks, each decided on the request's inputs alone
NoKeyForKid == \A i \in 1..Len(keys) : keys[i].kid # event.token.kid
LastKeyForKid ==
    keys[CHOOSE i \in 1..Len(keys) :
            /\ keys[i].kid = event.token.kid
            /\ \A j \in (i + 1)..Len(keys) : keys[j].kid # event.token.kid]
SignatureBad == LastKeyForKid.mat # event.token.signer
ClockPastExp == now > event.token.exp
AudienceBad == event.token.aud # ClientId
UserAgentBad == event.user_agent # "cognito-authorizer"
EarliestFailure ==
    IF NoKeyForKid THEN MsgUnknownKey
    ELSE IF SignatureBad THEN MsgBadSignature
    ELSE IF ClockPastExp THEN MsgExpired
    ELSE IF AudienceBad THEN MsgBadAudience
    ELSE IF UserAgentBad THEN MsgBadUserAgent
    ELSE NoError

\* a request that gets as far as the checks: a loadable token with a kid and
\* an exp, and a key set that was fetched
ChecksApply ==
    /\ event.token.shape = "jwt"
    /\ event.token.has_kid
    /\ event.token.has_exp
    /\ error # KeySetUnavailable

\* C3: validate_token reports the reason of the earliest failing check in
\* the order unknown key, bad signature, expired, bad audience, bad
\* User-Agent, and succeeds exactly when no check fails.
C3_EarliestFailureReported ==
    (pc = "done" /\ ChecksApply) =>
        /\ error = EarliestFailure
        /\ (EarliestFailure = NoError) <=> ReturnedAllow
        /\ (EarliestFailure # NoError) =>
              /\ ReturnedDeny
              /\ result.response[1].context.message = EarliestFailure

\* an expired token with a wrong audience and a wrong User-Agent
C3_Witness ==
    /\ pc = "done"
    /\ ChecksApply
    /\ ~NoKeyForKid /\ ~SignatureBad
    /\ ClockPastExp /\ AudienceBad /\ UserAgentBad
    /\ error = MsgExpired

\* the expiry check has been made on a token that carries exp
ExpiryChecked ==
    /\ claims # <<>>
    /\ claims[1].has_exp
    /\ pc \notin {"claims", "check_exp"}
PassedExpiry ==
    \/ pc \in {"check_aud", "check_ua", "allow"}
    \/ pc \in {"except_invalid", "done"} /\ error \in {MsgBadAudience, MsgBadUserAgent}
    \/ pc = "done" /\ error = NoError /\ ReturnedAllow

\* C4 as claimed: a verified token is rejected as expired whenever
\* exp <= now, and passes the expiry check when exp > now.
C4_ExpiredAtExp ==
    ExpiryChecked =>
        /\ (claims[1].exp <= now) => error = MsgExpired
        /\ (claims[1].exp > now) => PassedExpiry

\* C4, amended: a verified token is rejected as expired exactly when
\* exp < now; a token whose exp equals the clock passes the expiry check.
C4_ExpiredPastExp ==
    ExpiryChecked =>
        /\ (claims[1].exp < now) => (error = MsgExpired /\ ~PassedExpiry)
        /\ (claims[1].exp >= now) => (error # MsgExpired /\ PassedExpiry)

C4_Witness ==
    /\ ExpiryChecked
    /\ claims[1].exp = now
    /\ PassedExpiry

\* C5 as claimed: every invalid token, a malformed one included, ends in a
\* returned deny-all policy; lambda_handler raises only when the key set
\* could not be fetched.
C5_InvalidTokenAlwaysDenied ==
    (pc = "done" /\ result.kind = "raise") => result.exc = KeySetUnavailable

\* C6: when the key-set fetch fails lambda_handler returns nothing: the
\* fault reaches the caller as it was raised, and no grant is recorded and
\* no document built on the way.
C6_FetchFailurePropagates ==
    (error = KeySetUnavailable) =>
        /\ pc \in {"except_other", "done"}
        /\ ~Returned
        /\ result.response = <<>>
        /\ policy.allowMethods = <<>> /\ policy.denyMethods = <<>>
        /\ pc = "done" => (result.kind = "raise" /\ result.exc = KeySetUnavailable)

C6_Witness ==
    /\ pc = "done"
    /\ error = KeySetUnavailable
    /\ result.kind = "raise"

\* the ARN for verb * and path * in the request's region, account, api and stage
RequestArnAll ==
    <<"arn:aws:execute-api:", event.context.region, ":", event.context.accountId, ":",
      event.context.apiId, "/", event.context.stage, "/", "*", "/", "*">>

\* C7: a returned document has exactly one statement, without Condition and
\* with the request's */* ARN as its only resource: a Deny statement after
\* InvalidTokenError, an Allow statement after a successful validation.
C7_SingleStatement ==
    Returned =>
        LET st == Statements(result.response[1])
        IN  /\ Len(st) = 1
            /\ DOMAIN st[1] = {"Action", "Effect", "Resource"}
            /\ st[1].Action = "execute-api:Invoke"
            /\ st[1].Resource = <<RequestArnAll>>
            /\ st[1].Effect = IF error \in InvalidTokenMessages THEN "Deny" ELSE "Allow"
            /\ (error = NoError) \/ (error \in InvalidTokenMessages)

\* a token expired by one second
C7_Witness ==
    /\ pc = "done"
    /\ Returned
    /\ error = MsgExpired
    /\ now = event.token.exp + 1
    /\ Statements(result.response[1])[1].Effect = "Deny"

(***************************************************************************)
(* Properties of AuthPolicy (SpecPolicy).                                  *)
(***************************************************************************)
BuildReturned == ret.op = "build" /\ ret.raised = NoError
Built == ret.doc[1].policyDocument.Statement

\* C8: build raises, and returns no document, in every state with no
\* recorded grant, and returns a document whenever a grant is recorded.
C8_BuildNeedsGrant ==
    ret.op = "build" =>
        /\ (builder.allowMethods = <<>> /\ builder.denyMethods = <<>>) =>
              (ret.raised = NameError /\ ret.doc = <<>>)
        /\ (builder.allowMethods # <<>> \/ builder.denyMethods # <<>>) =>
              (ret.raised = NoError /\ Len(ret.doc) = 1)

C8_Witness ==
    /\ ret.op = "build"
    /\ ret.raised = NameError
    /\ builder.allowMethods = <<>> /\ builder.denyMethods = <<>>

\* the statements a list of grants stands for, by kind of grant
GrantConditioned(method) ==
    ~method.conditions.isNone /\ method.conditions.items # <<>>
GrantUnconditioned(method) == ~GrantConditioned(method)
MergedStatement(effect, methods) ==
    LET plain == SelectSeq(methods, GrantUnconditioned)
    IN  IF plain = <<>> THEN <<>>
        ELSE << [Action   |-> "execute-api:Invoke",
                 Effect   |-> effect,
                 Resource |-> [i \in 1..Len(plain) |-> plain[i].resourceArn]] >>
OwnStatements(effect, methods) ==
    LET conditioned == SelectSeq(methods, GrantConditioned)
    IN  [i \in 1..Len(conditioned) |->
            [Action    |-> "execute-api:Invoke",
             Effect    |-> effect,
             Resource  |-> <<conditioned[i].resourceArn>>,
             Condition |-> conditioned[i].conditions.items]]

\* C9 as claimed: the statements come in the order merged unconditioned
\* Allow, conditioned Allow grants in insertion order, merged unconditioned
\* Deny, conditioned Deny grants in insertion order.
C9_MergedStatementFirst ==
    BuildReturned =>
        Built = MergedStatement("Allow", builder.allowMethods)
                \o OwnStatements("Allow", builder.allowMethods)
                \o MergedStatement("Deny", builder.denyMethods)
                \o OwnStatements("Deny", builder.denyMethods)

\* C9, amended: the statements come in the order conditioned Allow grants
\* in insertion order, merged unconditioned Allow, conditioned Deny grants
\* in insertion order, merged unconditioned Deny.
C9_MergedStatementLast ==
    BuildReturned =>
        Built = OwnStatements("Allow", builder.allowMethods)
                \o MergedStatement("Allow", builder.allowMethods)
                \o OwnStatements("Deny", builder.denyMethods)
                \o MergedStatement("Deny", builder.denyMethods)

\* an unconditioned Allow grant recorded before a conditioned one, and a Deny grant
C9_Witness ==
    /\ BuildReturned
    /\ \E i, j \in 1..Len(builder.allowMethods) :
          /\ i < j
          /\ GrantUnconditioned(builder.allowMethods[i])
          /\ GrantConditioned(builder.allowMethods[j])
    /\ builder.denyMethods # <<>>

\* the statements of an effect that carry no Condition, and what they must hold
PlainStatements(effect) ==
    {i \in 1..Len(Built) : Built[i].Effect = effect /\ "Condition" \notin DOMAIN Built[i]}
PlainGrants(methods) == {k \in 1..Len(methods) : GrantUnconditioned(methods[k])}
MergedInto(effect, methods) ==
    IF PlainGrants(methods) = {}
    THEN PlainStatements(effect) = {}
    ELSE /\ Cardinality(PlainStatements(effect)) = 1
         /\ \A i \in PlainStatements(effect) :
               {Built[i].Resource[r] : r \in 1..Len(Built[i].Resource)}
                   = {methods[k].resourceArn : k \in PlainGrants(methods)}

\* C10: for each effect the unconditioned grants are merged into exactly one
\* statement, whose Resource holds the ARN of each of them, and an effect
\* without unconditioned grants gets no unconditioned statement.
C10_UnconditionedMerged ==
    BuildReturned =>
        /\ MergedInto("Allow", builder.allowMethods)
        /\ MergedInto("Deny", builder.denyMethods)

\* two unconditioned Allow grants with distinct paths
C10_Witness ==
    /\ BuildReturned
    /\ \E i, j \in PlainGrants(builder.allowMethods) :
          builder.allowMethods[i].resourceArn # builder.allowMethods[j].resourceArn
    /\ Cardinality(PlainStatements("Allow")) = 1

\* the statements of an effect that carry a Condition, and the grants they stand for
OwnStatementsOf(effect) ==
    {i \in 1..Len(Built) : Built[i].Effect = effect /\ "Condition" \in DOMAIN Built[i]}
ConditionedGrants(methods) == {k \in 1..Len(methods) : GrantConditioned(methods[k])}
StandsFor(statement, method) ==
    /\ statement.Resource = <<method.resourceArn>>
    /\ statement.Condition = method.conditions.items
StandAlone(effect, methods) ==
    /\ Cardinality(OwnStatementsOf(effect)) = Cardinality(ConditionedGrants(methods))
    /\ \A i \in OwnStatementsOf(effect) :
          /\ Len(Built[i].Resource) = 1
          /\ Built[i].Condition # <<>>
          /\ \E k \in ConditionedGrants(methods) : StandsFor(Built[i], methods[k])
    /\ \A k \in ConditionedGrants(methods) :
          \E i \in OwnStatementsOf(effect) : StandsFor(Built[i], methods[k])
    /\ \A i \in PlainStatements(effect) :
          Len(Built[i].Resource) = Cardinality(PlainGrants(methods))

\* C11: every grant with a non-empty condition gets a statement of its own
\* with its ARN as the only resource, its effect and its condition, and is
\* merged neither into the unconditioned statement nor into another grant's
\* statement; a grant whose condition is None or empty is unconditioned and
\* its statement has no Condition entry.
C11_ConditionedStandAlone ==
    BuildReturned =>
        /\ StandAlone("Allow", builder.allowMethods)
        /\ StandAlone("Deny", builder.denyMethods)

\* a conditioned and an unconditioned Allow grant of the same ARN, and a
\* grant given None as its conditions
C11_Witness ==
    /\ BuildReturned
    /\ \E i \in ConditionedGrants(builder.allowMethods),
          j \in PlainGrants(builder.allowMethods) :
          builder.allowMethods[i].resourceArn = builder.allowMethods[j].resourceArn
    /\ \E k \in 1..Len(builder.denyMethods) : builder.denyMethods[k].conditions.isNone

(***************************************************************************)
(* AuthPolicy.allowMethod and denyMethod over many verbs, paths and        *)
(* contexts (SpecGrant).                                                   *)
(***************************************************************************)
AnyVerbs == {"GET", "*", "ALL", "get"}
AnyPaths ==
    {<<"/", "u", "s", "e", "r", "s", "/", "1", "2", "3">>, <<"/", "/", "a">>, <<"b">>,
     <<>>, <<"a", "?">>, <<"a", LineFeed>>}
\* what policy.region, policy.restApiId and policy.stage can be assigned
AnyContexts ==
    {[region |-> ClassRegion, apiId |-> ClassRestApiId, stage |-> ClassStage],
     [region |-> "us-east-1", apiId |-> "abcd123", stage |-> "prod"]}

WideAllowMethod ==
    /\ Grants(builder) < MaxWideGrants
    /\ \E verb \in AnyVerbs, resource \in AnyPaths :
          Called("allowMethod", verb, resource, AllowMethod(builder, verb, resource))

WideDenyMethod ==
    /\ Grants(builder) < MaxWideGrants
    /\ \E verb \in AnyVerbs, resource \in AnyPaths :
          Called("denyMethod", verb, resource, DenyMethod(builder, verb, resource))

\* the attribute assignments of lambda_handler lines 22-24, on builder
Configure ==
    /\ \E ctx \in AnyContexts :
          builder' = [builder EXCEPT !.region = ctx.region,
                                     !.restApiId = ctx.apiId,
                                     !.stage = ctx.stage]
    /\ ret' = [op |-> "configure", raised |-> NoError, doc |-> <<>>]
    /\ UNCHANGED hasBuilt
    /\ call' = [inst |-> 0, verb |-> "", resource |-> <<>>, self |-> builder]
    /\ UNCHANGED hvars
    /\ UNCHANGED tvars

NextGrant ==
    \/ WideAllowMethod
    \/ WideDenyMethod
    \/ Configure
    \/ CallBuild
    \/ Construct

SpecGrant == Init /\ [][NextGrant]_vars

(***************************************************************************)
(* Properties of allowMethod and denyMethod (SpecGrant).                   *)
(***************************************************************************)
AllowOps == {"allowMethod", "allowMethodWithConditions", "allowAllMethods"}
DenyOps == {"denyMethod", "denyMethodWithConditions", "denyAllMethods"}
AddCalled == ret.op \in AllowOps \cup DenyOps
AddReturned == AddCalled /\ ret.raised = NoError
AddRaised == AddCalled /\ ret.raised # NoError

\* the path after one leading slash, if there is one, is taken off
PathOf(resource) ==
    IF resource # <<>> /\ Head(resource) = "/" THEN Tail(resource) ELSE resource
\* the ARN of the last call in the context the instance had before it
CallArn ==
    <<"arn:aws:execute-api:", call.self.region, ":", call.self.awsAccountId, ":",
      call.self.restApiId, "/", call.self.stage, "/", call.verb, "/">>
    \o PathOf(call.resource)
RecordedBy(before, after) ==
    /\ Len(after) = Len(before) + 1
    /\ SubSeq(after, 1, Len(before)) = before
    /\ after[Len(after)].resourceArn = CallArn

\* C12: the ARN an accepted grant records is
\* arn:aws:execute-api:{region}:{accountId}:{apiId}/{stage}/{verb}/{path} in
\* the context the instance has at the call, the path being the resource
\* path without one leading slash, if it has one, and otherwise unchanged.
C12_ArnFormat ==
    AddReturned =>
        IF ret.op \in AllowOps
        THEN /\ RecordedBy(call.self.allowMethods, builder.allowMethods)
             /\ builder.denyMethods = call.self.denyMethods
        ELSE /\ RecordedBy(call.self.denyMethods, builder.denyMethods)
             /\ builder.allowMethods = call.self.allowMethods

\* the path //a in an assigned context
C12_Witness ==
    /\ AddReturned
    /\ call.resource = <<"/", "/", "a">>
    /\ call.self.region = "us-east-1"
    /\ builder.allowMethods # <<>>
    /\ builder.allowMethods[1].resourceArn =
          <<"arn:aws:execute-api:", "us-east-1", ":", Account, ":", "abcd123", "/",
            "prod", "/", call.verb, "/", "/", "a">>

\* C13 as claimed: a verb outside GET, POST, PUT, PATCH, HEAD, DELETE,
\* OPTIONS and * is refused and records no grant, and a verb among them is
\* not refused for its verb.
C13_VerbEnumeration ==
    AddCalled =>
        /\ call.verb \notin HttpVerbValues => (ret.raised = NameError /\ builder = call.self)
        /\ (call.verb \in HttpVerbValues /\ PathRegexMatch(call.resource)) =>
              ret.raised = NoError

\* C14 as claimed: a path is accepted exactly when it is non-empty and made
\* of letters, digits, -, ., * and / only, and a refused call leaves both
\* lists as they were.
InPathClass(resource) ==
    resource # <<>> /\ \A i \in 1..Len(resource) : resource[i] \in PathClass
C14_PathClass ==
    AddCalled =>
        /\ ~InPathClass(call.resource) => ret.raised = NameError
        /\ (InPathClass(call.resource) /\ call.verb \in HttpVerbValues) =>
              ret.raised = NoError
        /\ ret.raised # NoError => builder = call.self

(***************************************************************************)
(* Calls after build (SpecPolicy).                                         *)
(***************************************************************************)
\* what lines 140-144 let through
PassesChecks(verb, resource) ==
    (verb = "*" \/ HasAttrHttpVerb(verb)) /\ PathRegexMatch(resource)

\* C15 as claimed: once build has returned a document, every further
\* allow/deny call is refused and leaves the recorded grants unchanged.
C15_BuiltTerminal ==
    (hasBuilt /\ AddCalled) => (ret.raised # NoError /\ builder = call.self)

\* C15: build does not close the instance: an allow/deny call made after
\* build has returned a document is checked as any other, is refused only
\* for its verb or its path, and otherwise records one more grant after
\* those already recorded.
C15_AddAfterBuild ==
    (hasBuilt /\ AddCalled) =>
        IF PassesChecks(call.verb, call.resource)
        THEN /\ ret.raised = NoError
             /\ Grants(builder) = Grants(call.self) + 1
             /\ \/ /\ ret.op \in AllowOps
                   /\ SubSeq(builder.allowMethods, 1, Len(call.self.allowMethods))
                         = call.self.allowMethods
                   /\ builder.denyMethods = call.self.denyMethods
                \/ /\ ret.op \in DenyOps
                   /\ SubSeq(builder.denyMethods, 1, Len(call.self.denyMethods))
                         = call.self.denyMethods
                   /\ builder.allowMethods = call.self.allowMethods
        ELSE ret.raised = NameError /\ builder = call.self

\* a grant recorded after a build that returned a document
C15_Witness ==
    /\ hasBuilt
    /\ AddReturned
    /\ Grants(call.self) >= 1
    /\ Grants(builder) = Grants(call.self) + 1

(***************************************************************************)
(* The kid scan (Spec).                                                    *)
(***************************************************************************)
\* the scan of lines 56-58 has run to its end for a token that carries a kid
KeysScanned ==
    /\ pc \notin {"idle", "headers", "fetch", "find_key"}
    /\ event.token.shape = "jwt"
    /\ event.token.has_kid
    /\ error # KeySetUnavailable
PastVerify == pc \in {"claims", "check_exp", "check_aud", "check_ua", "allow"}

\* C16: after the scan, target_key is the last key of the fetched key set
\* whose kid is the header's kid, duplicates or not, and the signature
\* verdict is that key's; when no key has the kid, no key is selected, the
\* failure is the unknown-key reason and the signature step is never reached.
C16_LastKidWins ==
    /\ KeysScanned =>
          IF NoKeyForKid
          THEN /\ target_key = NoKey
               /\ error = MsgUnknownKey
               /\ pc \in {"except_invalid", "done"}
          ELSE /\ target_key = LastKeyForKid
               /\ error # MsgUnknownKey
               /\ error = MsgBadSignature => target_key.mat # event.token.signer
               /\ PastVerify => target_key.mat = event.token.signer
    /\ pc = "verify" => (event.token.has_kid /\ ~NoKeyForKid)

\* two keys with the token's kid, the first of which would verify the
\* signature and the last of which does not
C16_Witness ==
    /\ pc = "done"
    /\ KeysScanned
    /\ Len(keys) = 2
    /\ keys[1].kid = event.token.kid /\ keys[2].kid = event.token.kid
    /\ keys[1].mat = event.token.signer /\ keys[2].mat # event.token.signer
    /\ target_key = keys[2]
    /\ error = MsgBadSignature

(***************************************************************************)
(* What a denial shows of its reason (Spec).                               *)
(***************************************************************************)
\* the decision of a denial, from the request context and nothing else
DenialFor(context) ==
    [principalId |-> "",
     policyDocument |->
        [Version |-> "2012-10-17",
         Statement |->
            << [Action |-> "execute-api:Invoke", Effect |-> "Deny",
                Resource |-> << <<"arn:aws:execute-api:", context.region, ":",
                                  context.accountId, ":", context.apiId, "/",
                                  context.stage, "/", "*", "/", "*">> >>] >>]]
Decision(response) ==
    [principalId |-> response.principalId, policyDocument |-> response.policyDocument]
Denied == pc = "done" /\ Returned /\ error \in InvalidTokenMessages

\* C17: the principalId and policyDocument of a denial are determined by
\* the request's account, api, stage and region alone, so two denials in
\* one context for different reasons carry the same decision; the reason
\* is the message of the context field and of nothing else, and the
\* response for a validated token has no context field.
C17_ReasonOnlyInContext ==
    /\ Denied =>
          /\ Decision(result.response[1]) = DenialFor(event.context)
          /\ DOMAIN result.response[1] = {"principalId", "policyDocument", "context"}
          /\ result.response[1].context = [message |-> error]
    /\ (pc = "done" /\ Returned /\ error = NoError) =>
          DOMAIN result.response[1] = {"principalId", "policyDocument"}

\* a denial for a wrong User-Agent, the last of the reasons
C17_Witness ==
    /\ Denied
    /\ error = MsgBadUserAgent
    /\ result.response[1].context.message = MsgBadUserAgent
    /\ result.response[1].principalId = ""
    /\ Statements(result.response[1])[1].Effect = "Deny"

(***************************************************************************)
(* Two AuthPolicy objects and the class they share (SpecTwo).  An entry of *)
(* insts is an object: own says that allowMethods and denyMethods are      *)
(* attributes of the object itself, fields holds its attributes, and log   *)
(* is history: the ARNs recorded through this object since it was made.    *)
(* shared holds the two lists that are attributes of the class.            *)
(***************************************************************************)
\* mutant: __init__ without lines 133-134: the lists stay those of the class
NewInstanceClassLists(principal, awsAccountId) ==
    [alive |-> TRUE, own |-> FALSE, fields |-> AuthPolicyInit(principal, awsAccountId),
     log |-> <<>>]

\* AuthPolicy(principal, awsAccountId): __init__ binds two new lists to self
NewInstance(principal, awsAccountId) ==
    [alive |-> TRUE, own |-> TRUE, fields |-> AuthPolicyInit(principal, awsAccountId),
     log |-> <<>>]

\* attribute lookup on the object: its own lists, else those of the class
Self(i) ==
    IF insts[i].own THEN insts[i].fields
    ELSE [insts[i].fields EXCEPT !.allowMethods = shared.allowMethods,
                                 !.denyMethods = shared.denyMethods]

TwoVerbs == {"GET"}
TwoPaths == {<<"a">>, <<"b">>}

\* a call on object i that leaves it as added.self: an append goes to the
\* list the lookup found
CalledOn(i, op, verb, resource, added) ==
    /\ insts[i].alive
    /\ LET arns == IF added.raised = NoError
                   THEN <<ResourceArn(Self(i), verb, StripLeadingSlash(resource))>>
                   ELSE <<>>
       IN  IF insts[i].own
           THEN /\ insts' = [insts EXCEPT ![i].fields = added.self,
                                          ![i].log = @ \o arns]
                /\ UNCHANGED shared
           ELSE /\ insts' = [insts EXCEPT ![i].log = @ \o arns]
                /\ shared' = [allowMethods |-> added.self.allowMethods,
                              denyMethods |-> added.self.denyMethods]
    /\ ret' = [op |-> op, raised |-> added.raised, doc |-> <<>>]
    /\ call' = [inst |-> i, verb |-> verb, resource |-> resource, self |-> Self(i)]
    /\ UNCHANGED <<builder, hasBuilt>>
    /\ UNCHANGED hvars

New(i) ==
    /\ insts' = [insts EXCEPT ![i] = NewInstance(Principal, Account)]
    /\ ret' = NoRet
    /\ call' = [inst |-> i, verb |-> "", resource |-> <<>>,
                self |-> AuthPolicyInit(Principal, Account)]
    /\ UNCHANGED <<builder, hasBuilt, shared>>
    /\ UNCHANGED hvars

AllowMethodOn(i) ==
    /\ Grants(Self(i)) < MaxInstGrants
    /\ \E verb \in TwoVerbs, resource \in TwoPaths :
          CalledOn(i, "allowMethod", verb, resource, AllowMethod(Self(i), verb, resource))

DenyMethodOn(i) ==
    /\ Grants(Self(i)) < MaxInstGrants
    /\ \E verb \in TwoVerbs, resource \in TwoPaths :
          CalledOn(i, "denyMethod", verb, resource, DenyMethod(Self(i), verb, resource))

BuildOn(i) ==
    /\ insts[i].alive
    /\ LET built == Build(Self(i))
       IN  ret' = [op |-> "build", raised |-> built.raised, doc |-> built.doc]
    /\ call' = [inst |-> i, verb |-> "", resource |-> <<>>, self |-> Self(i)]
    /\ UNCHANGED <<builder, hasBuilt>>
    /\ UNCHANGED tvars
    /\ UNCHANGED hvars

NextTwo ==
    \E i \in Insts :
        \/ New(i)
        \/ AllowMethodOn(i)
        \/ DenyMethodOn(i)
        \/ BuildOn(i)

SpecTwo == Init /\ [][NextTwo]_vars

(***************************************************************************)
(* Grants of two objects (SpecTwo).                                        *)
(***************************************************************************)
ArnsOf(statements) ==
    UNION {{statements[k].Resource[r] : r \in 1..Len(statements[k].Resource)} :
              k \in 1..Len(statements)}
RECURSIVE ResourceCount(_)
ResourceCount(statements) ==
    IF statements = <<>> THEN 0
    ELSE Len(Head(statements).Resource) + ResourceCount(Tail(statements))
Logged(i) == {insts[i].log[k] : k \in 1..Len(insts[i].log)}

\* C18: what build returns on an object is made of the grants recorded
\* through that object since it was constructed and of no others, whatever
\* was called on the other object in between: with none recorded, a newly
\* constructed object among them, build raises; otherwise the document holds
\* one resource entry for each of them.
C18_PerInstanceGrants ==
    \A i \in Insts :
        (ret.op = "build" /\ call.inst = i) =>
            IF insts[i].log = <<>>
            THEN ret.raised = NameError /\ ret.doc = <<>>
            ELSE /\ ret.raised = NoError
                 /\ ArnsOf(ret.doc[1].policyDocument.Statement) = Logged(i)
                 /\ ResourceCount(ret.doc[1].policyDocument.Statement) = Len(insts[i].log)

\* build on one object while the other holds a grant the first has not
C18_Witness ==
    /\ ret.op = "build" /\ ret.raised = NoError
    /\ call.inst = 2
    /\ insts[1].alive /\ insts[1].log # <<>>
    /\ \E k \in 1..Len(insts[1].log) :
          /\ insts[1].log[k] \notin Logged(2)
          /\ insts[1].log[k] \notin ArnsOf(ret.doc[1].policyDocument.Statement)

(***************************************************************************)
(* build as a read (SpecPolicy).                                           *)
(***************************************************************************)
GrantArns(self) ==
    {self.allowMethods[k].resourceArn : k \in 1..Len(self.allowMethods)}
    \cup {self.denyMethods[k].resourceArn : k \in 1..Len(self.denyMethods)}

\* C19: a call of build leaves the instance, its two lists and its context
\* fields, exactly as it was; the document it returns has one resource entry
\* for every grant recorded so far and no other; and a build that directly
\* follows a build returns what that one returned.
C19_BuildPureRead ==
    [][ret'.op = "build" =>
          /\ builder' = builder
          /\ call'.self = builder
          /\ ret'.raised = NoError =>
                /\ ArnsOf(ret'.doc[1].policyDocument.Statement) = GrantArns(builder)
                /\ ResourceCount(ret'.doc[1].policyDocument.Statement) = Grants(builder)
          /\ ret.op = "build" => ret' = ret]_vars

\* a build of an instance with grants of both effects that was built before
\* and is as it was before the call
C19_Witness ==
    /\ BuildReturned
    /\ hasBuilt
    /\ builder = call.self
    /\ builder.allowMethods # <<>> /\ builder.denyMethods # <<>>
    /\ ResourceCount(Built) = Grants(builder)

(***************************************************************************)
(* The shape of a built document (SpecPolicy).                             *)
(***************************************************************************)
\* the resource entries of the statements of one effect, in document order
RECURSIVE ResourcesUnder(_, _)
ResourcesUnder(statements, effect) ==
    IF statements = <<>> THEN <<>>
    ELSE (IF Head(statements).Effect = effect THEN Head(statements).Resource ELSE <<>>)
         \o ResourcesUnder(Tail(statements), effect)
Times(arn, arns) == Cardinality({k \in 1..Len(arns) : arns[k] = arn})
ArnsIn(methods) == [k \in 1..Len(methods) |-> methods[k].resourceArn]
SameEntries(arns, methods) ==
    /\ Len(arns) = Len(methods)
    /\ \A k \in 1..Len(methods) :
          Times(methods[k].resourceArn, arns) = Times(methods[k].resourceArn, ArnsIn(methods))
WellFormed(document) ==
    /\ document.Version = "2012-10-17"
    /\ Len(document.Statement) >= 1
    /\ \A k \in 1..Len(document.Statement) :
          LET st == document.Statement[k]
          IN  /\ st.Action = "execute-api:Invoke"
              /\ st.Effect \in {"Allow", "Deny"}
              /\ st.Resource # <<>>
StatementsWith(arn) ==
    {k \in 1..Len(Built) : \E r \in 1..Len(Built[k].Resource) : Built[k].Resource[r] = arn}

\* C20 as claimed: a built document is well formed, the ARN of an allow
\* grant is in no statement but Allow statements and the ARN of a deny grant
\* in none but Deny statements, and there are as many resource entries as
\* grants.
C20_ArnsUnderOneEffect ==
    BuildReturned =>
        /\ WellFormed(ret.doc[1].policyDocument)
        /\ \A g \in 1..Len(builder.allowMethods) :
              \A k \in StatementsWith(builder.allowMethods[g].resourceArn) :
                  Built[k].Effect = "Allow"
        /\ \A g \in 1..Len(builder.denyMethods) :
              \A k \in StatementsWith(builder.denyMethods[g].resourceArn) :
                  Built[k].Effect = "Deny"
        /\ ResourceCount(Built) = Grants(builder)

\* C20: a built document has Version 2012-10-17 and at least one statement;
\* every statement has Action execute-api:Invoke, Effect Allow or Deny and
\* a non-empty Resource list; the resource entries of the Allow statements
\* are the ARNs of the allow grants, each as often as it was granted, and
\* those of the Deny statements the ARNs of the deny grants, so that an ARN
\* granted under both effects is under both; and the number of resource
\* entries is the number of grants.
C20_WellFormedConserving ==
    BuildReturned =>
        /\ WellFormed(ret.doc[1].policyDocument)
        /\ SameEntries(ResourcesUnder(Built, "Allow"), builder.allowMethods)
        /\ SameEntries(ResourcesUnder(Built, "Deny"), builder.denyMethods)
        /\ ResourceCount(Built) = Grants(builder)

\* one ARN allowed and denied, and in a statement of each effect
C20_Witness ==
    /\ BuildReturned
    /\ builder.allowMethods # <<>> /\ builder.denyMethods # <<>>
    /\ builder.allowMethods[1].resourceArn = builder.denyMethods[1].resourceArn
    /\ \E k, l \in StatementsWith(builder.allowMethods[1].resourceArn) :
          Built[k].Effect = "Allow" /\ Built[l].Effect = "Deny"
    /\ Grants(builder) >= 2

====
